---- MODULE Spec2Model ----
(***************************************************************************)
(* A model of drcov-rs (src/src/lib.rs): Module, Trace and the drcov       *)
(* encoder.                                                                *)
(*                                                                         *)
(* Numbers.  TLC's integers are 32 bits wide, the program's addresses are  *)
(* u64.  A u64 (and a usize, taken as 64 bits wide) is the sequence of its *)
(* four 16-bit limbs, most significant first; a u32 is the sequence of its *)
(* two limbs; a u16 is an integer in 0..65535.  A string and the output of *)
(* the encoder are sequences of bytes (0..255).                            *)
(*                                                                         *)
(* Module lists.  A Vec<Module> is the sequence of its runs: a run is a    *)
(* module and the number of times it stands there in a row, so that a list *)
(* of more than 2^16 modules is a value TLC can hold and print.  The       *)
(* modules of a run are equal, and a scan of the list meets the runs in    *)
(* their order.                                                            *)
(***************************************************************************)
EXTENDS Integers, Sequences, FiniteSets, TLC

VARIABLES
    modules,    \* Trace.modules: Vec<Module>, as runs [count, module]
    entries,    \* Trace.entries: Vec<BasicBlockEntry>
    flavor,     \* Trace.flavor: &'static str
    version,    \* Trace.version: Version
    endian,     \* the byte order of the build's target (to_ne_bytes)
    op,         \* the last operation called
    arg,        \* its arguments
    res,        \* how it ended: [tag |-> "Ok" | "Panic" | "Err", msg |-> ...]
    ret,        \* the value it returned: <<>> (nothing, None) or <<v>>
    out,        \* the bytes the sink accepted during the last serialization
    attempts,   \* the write requests the last serialization made on the sink
    failed,     \* the request of the last serialization the sink failed (0: none)
    calls       \* the (address, size) of every call of add that returned, in order

trace == <<modules, entries, flavor, version>>
sinkv == <<out, attempts, failed>>
vars == <<modules, entries, flavor, version, endian, op, arg, res, ret, out,
          attempts, failed, calls>>

-----------------------------------------------------------------------------
(* Fixed-width unsigned integers *)

\* u16::MAX
U16_MAX == 65535

\* one more than the largest limb: 2^16
Radix == U16_MAX + 1

ZERO64 == <<0, 0, 0, 0>>

\* u32::MAX as u64
U32_MAX_AS_U64 == <<0, 0, U16_MAX, U16_MAX>>

\* a < b on u64
Lt64(a, b) ==
    \/ a[1] < b[1]
    \/ a[1] = b[1] /\ a[2] < b[2]
    \/ a[1] = b[1] /\ a[2] = b[2] /\ a[3] < b[3]
    \/ a[1] = b[1] /\ a[2] = b[2] /\ a[3] = b[3] /\ a[4] < b[4]

\* a <= b on u64
Le64(a, b) == ~Lt64(b, a)

\* the borrow into limb i (1 is the most significant) of a - b
RECURSIVE Borrow(_, _, _)
Borrow(a, b, i) ==
    IF i = Len(a) THEN 0
    ELSE IF a[i + 1] - b[i + 1] - Borrow(a, b, i + 1) < 0 THEN 1 ELSE 0

\* a - b on u64, for b <= a (the subtraction does not overflow)
SubLimb(a, b, i) == (a[i] - b[i] - Borrow(a, b, i) + Radix) % Radix

Sub64(a, b) == <<SubLimb(a, b, 1), SubLimb(a, b, 2), SubLimb(a, b, 3), SubLimb(a, b, 4)>>

\* u64 -> u32 (TryFrom): fails when the value does not fit
TryIntoU32(x) ==
    IF x[1] = 0 /\ x[2] = 0
    THEN [ok |-> TRUE, val |-> <<x[3], x[4]>>]
    ELSE [ok |-> FALSE, val |-> <<0, 0>>]

\* A faulty variant: usize as u16: the low 16 bits, whatever the value
TryIntoU16_Truncating(x) == [ok |-> TRUE, val |-> x[4]]

\* usize -> u16 (TryFrom): fails when the value does not fit
TryIntoU16(x) ==
    IF x[1] = 0 /\ x[2] = 0 /\ x[3] = 0
    THEN [ok |-> TRUE, val |-> x[4]]
    ELSE [ok |-> FALSE, val |-> 0]

\* usize as u16: the low 16 bits
AsU16(n) == n % Radix

-----------------------------------------------------------------------------
(* Results *)

Ok == [tag |-> "Ok", msg |-> ""]
Panic(m) == [tag |-> "Panic", msg |-> m]
IoErr(m) == [tag |-> "Err", msg |-> m]

-----------------------------------------------------------------------------
(* Module *)

\* A faulty variant: Module::new without the assertion on the size
Module_new_NoSizeCheck(name, base, end) ==
    IF ~Lt64(base, end)
    THEN [res |-> Panic("base must be before end"), val |-> <<>>]
    ELSE [res |-> Ok, val |-> <<[name |-> name, base |-> base, end |-> end]>>]

\* Module::new: the module, or the panic of the assertion that fails
Module_new(name, base, end) ==
    IF ~Lt64(base, end)
    THEN [res |-> Panic("base must be before end"), val |-> <<>>]
    ELSE IF ~Le64(Sub64(end, base), U32_MAX_AS_U64)
    THEN [res |-> Panic("Module sizes > u32::MAX are not representable"),
          val |-> <<>>]
    ELSE [res |-> Ok, val |-> <<[name |-> name, base |-> base, end |-> end]>>]

\* A faulty variant: Module::contains with the end address inside
Module_contains_Inclusive(m, address) ==
    Le64(m.base, address) /\ Le64(address, m.end)

\* Module::contains
Module_contains(m, address) ==
    Le64(m.base, address) /\ Lt64(address, m.end)

-----------------------------------------------------------------------------
(* Trace *)

\* self.modules.len()
RECURSIVE Modules_len(_)
Modules_len(ms) ==
    IF ms = <<>> THEN 0 ELSE ms[1].count + Modules_len(Tail(ms))

\* self.modules[k - 1]: the module at position k (from 1)
RECURSIVE ModuleAt(_, _)
ModuleAt(ms, k) ==
    IF k <= ms[1].count THEN ms[1].module
    ELSE ModuleAt(Tail(ms), k - ms[1].count)

\* iter().enumerate().find(|(_, m)| m.contains(address)): the position
\* (from 1) of the first module that contains the address, 0 when none does.
\* The scan passes a run whose module does not contain the address, and stops
\* at the first module of a run whose module does.
RECURSIVE FindFrom(_, _, _)
FindFrom(ms, address, passed) ==
    IF ms = <<>> THEN 0
    ELSE IF Module_contains(ms[1].module, address) THEN passed + 1
    ELSE FindFrom(Tail(ms), address, passed + ms[1].count)

FindModule(ms, address) == FindFrom(ms, address, 0)

\* Trace::get_module: Some(&module) as <<module>>, None as <<>>
Trace_get_module(ms, address) ==
    LET k == FindModule(ms, address)
    IN  IF k = 0 THEN <<>> ELSE <<ModuleAt(ms, k)>>

\* A faulty variant: Trace::add converting the size before it looks for the module
Trace_add_entry_SizeFirst(ms, address, size) ==
    LET k  == FindModule(ms, address)
        sz == TryIntoU16(size)
    IN  IF ~sz.ok
        THEN [res |-> Panic("Entry size is too large (u16::MAX < entry)"),
              val |-> <<>>]
        ELSE IF k = 0
        THEN [res |-> Panic("No module found that contains that address"),
              val |-> <<>>]
        ELSE [res |-> Ok,
              val |-> <<[start  |-> TryIntoU32(Sub64(address, ModuleAt(ms, k).base)).val,
                         size   |-> sz.val,
                         mod_id |-> AsU16(k - 1)]>>]

\* The entry Trace::add builds, or the panic that ends the call.  The closure
\* of map runs only when find returned a module; in it start is converted
\* before size.
Trace_add_entry(ms, address, size) ==
    LET k == FindModule(ms, address)
    IN  IF k = 0
        THEN [res |-> Panic("No module found that contains that address"),
              val |-> <<>>]
        ELSE LET start == TryIntoU32(Sub64(address, ModuleAt(ms, k).base))
                 sz    == TryIntoU16(size)
             IN  IF ~start.ok
                 THEN [res |-> Panic("called Result::unwrap() on an Err value"),
                       val |-> <<>>]
                 ELSE IF ~sz.ok
                 THEN [res |-> Panic("Entry size is too large (u16::MAX < entry)"),
                       val |-> <<>>]
                 ELSE [res |-> Ok,
                       val |-> <<[start  |-> start.val,
                                  size   |-> sz.val,
                                  mod_id |-> AsU16(k - 1)]>>]

-----------------------------------------------------------------------------
(* Formatting *)

\* "DRCOV VERSION: "
StrVersionPrefix == <<68, 82, 67, 79, 86, 32, 86, 69, 82, 83, 73, 79, 78, 58, 32>>
\* "DRCOV FLAVOR: "
StrFlavorPrefix == <<68, 82, 67, 79, 86, 32, 70, 76, 65, 86, 79, 82, 58, 32>>
\* "Module Table: version 4, count "
StrTablePrefix ==
    <<77, 111, 100, 117, 108, 101, 32, 84, 97, 98, 108, 101, 58, 32, 118, 101,
      114, 115, 105, 111, 110, 32, 52, 44, 32, 99, 111, 117, 110, 116, 32>>
\* "Columns: id, containing_id, start, end, entry, offset, path"
StrColumns ==
    <<67, 111, 108, 117, 109, 110, 115, 58, 32, 105, 100, 44, 32, 99, 111, 110,
      116, 97, 105, 110, 105, 110, 103, 95, 105, 100, 44, 32, 115, 116, 97, 114,
      116, 44, 32, 101, 110, 100, 44, 32, 101, 110, 116, 114, 121, 44, 32, 111,
      102, 102, 115, 101, 116, 44, 32, 112, 97, 116, 104>>
\* "BB Table: "
StrBBPrefix == <<66, 66, 32, 84, 97, 98, 108, 101, 58, 32>>
\* " bbs"
StrBBSuffix == <<32, 98, 98, 115>>
\* ", 0, "
StrSepZeroSep == <<44, 32, 48, 44, 32>>
\* ", "
StrSep == <<44, 32>>
\* "0x", the prefix of {:#x}
StrHexPrefix == <<48, 120>>
\* "drcov"
StrDrcov == <<100, 114, 99, 111, 118>>

\* the newline writeln! ends a line with
NL == <<10>>

\* impl Display for Version
Version_fmt(v) == IF v = "V2" THEN <<50>> ELSE <<51>>

\* {} of a usize: its decimal digits
RECURSIVE DisplayUsize(_)
DisplayUsize(n) ==
    IF n < 10 THEN <<48 + n>>
    ELSE DisplayUsize(n \div 10) \o <<48 + (n % 10)>>

\* one lower-case hexadecimal digit
HexDigit(d) == IF d < 10 THEN 48 + d ELSE 87 + d

\* the four hexadecimal digits of a limb
LimbHex(l) ==
    <<HexDigit(l \div 4096), HexDigit((l \div 256) % 16),
      HexDigit((l \div 16) % 16), HexDigit(l % 16)>>

\* a sequence of digits without its leading "0"s (one digit at least stays)
RECURSIVE StripZeros(_)
StripZeros(ds) ==
    IF Len(ds) > 1 /\ ds[1] = 48 THEN StripZeros(Tail(ds)) ELSE ds

\* {:#x} of a u64
LowerHex64(x) ==
    StrHexPrefix
        \o StripZeros(LimbHex(x[1]) \o LimbHex(x[2]) \o LimbHex(x[3]) \o LimbHex(x[4]))

\* u16::to_ne_bytes and u32::to_ne_bytes, in the byte order of the target
U16_to_ne_bytes(v, e) ==
    IF e = "little" THEN <<v % 256, v \div 256>> ELSE <<v \div 256, v % 256>>

U32_to_ne_bytes(v, e) ==
    IF e = "little"
    THEN U16_to_ne_bytes(v[2], e) \o U16_to_ne_bytes(v[1], e)
    ELSE U16_to_ne_bytes(v[1], e) \o U16_to_ne_bytes(v[2], e)

-----------------------------------------------------------------------------
(* The sink (impl Write) and the encoder *)

\* A sink about to take its first request.  It fails request failAt (0: none)
\* after accepting partial bytes of it, and accepts every other request whole.
NewSink(failAt, partial) ==
    [err |-> FALSE, bytes |-> <<>>, n |-> 0, failedAt |-> 0,
     failAt |-> failAt, partial |-> partial]

Min(a, b) == IF a < b THEN a ELSE b

\* writer.write_all(buf), through writeln! or directly
Sink_write_all(w, buf) ==
    IF w.n + 1 = w.failAt
    THEN [w EXCEPT !.n = w.n + 1,
                   !.err = TRUE,
                   !.failedAt = w.n + 1,
                   !.bytes = w.bytes \o SubSeq(buf, 1, Min(w.partial, Len(buf) - 1))]
    ELSE [w EXCEPT !.n = w.n + 1, !.bytes = w.bytes \o buf]

\* A faulty variant: a request whose error is dropped: the next statement runs
Try_Ignoring(w, buf) == Sink_write_all(w, buf)

\* write_all(buf)?: once a request has failed the function has returned, and
\* the statements after it are not run
Try(w, buf) == IF w.err THEN w ELSE Sink_write_all(w, buf)

\* BasicBlockEntry::write
BasicBlockEntry_write(e, en) ==
    U32_to_ne_bytes(e.start, en) \o U16_to_ne_bytes(e.size, en)
        \o U16_to_ne_bytes(e.mod_id, en)

\* writeln!(writer, "{id}, 0, {base:#x}, {end:#x}, 0, 0, {name}")
ModuleRow(id, m) ==
    DisplayUsize(id) \o StrSepZeroSep \o LowerHex64(m.base) \o StrSep
        \o LowerHex64(m.end) \o StrSepZeroSep \o <<48>> \o StrSep \o m.name \o NL

\* for (id, Module { name, base, end }) in self.modules.iter().enumerate()
RECURSIVE WriteRows(_, _, _)
WriteRows(w, ms, i) ==
    IF i > Modules_len(ms) THEN w
    ELSE WriteRows(Try(w, ModuleRow(i - 1, ModuleAt(ms, i))), ms, i + 1)

\* A faulty variant: the entries written from the last to the first
RECURSIVE WriteEntries_Reversed(_, _, _, _)
WriteEntries_Reversed(w, es, en, i) ==
    IF i > Len(es) THEN w
    ELSE WriteEntries_Reversed(Try(w, BasicBlockEntry_write(es[Len(es) + 1 - i], en)),
                               es, en, i + 1)

\* for entry in &self.entries { entry.write(writer)?; }
RECURSIVE WriteEntries(_, _, _, _)
WriteEntries(w, es, en, i) ==
    IF i > Len(es) THEN w
    ELSE WriteEntries(Try(w, BasicBlockEntry_write(es[i], en)), es, en, i + 1)

\* Trace::write: the sink when the function returns
Trace_write(ms, es, fl, v, en, w0) ==
    LET w1 == Try(w0, StrVersionPrefix \o Version_fmt(v) \o NL)
        w2 == Try(w1, StrFlavorPrefix \o fl \o NL)
        w3 == Try(w2, StrTablePrefix \o DisplayUsize(Modules_len(ms)) \o NL)
        w4 == Try(w3, StrColumns \o NL)
        w5 == WriteRows(w4, ms, 1)
        w6 == Try(w5, StrBBPrefix \o DisplayUsize(Len(es)) \o StrBBSuffix \o NL)
    IN  WriteEntries(w6, es, en, 1)

-----------------------------------------------------------------------------
(* The inputs the model draws *)

\* "abcd"
NameAbcd == <<97, 98, 99, 100>>
\* "libc.so"
NameLibc == <<108, 105, 98, 99, 46, 115, 111>>

Names == {NameAbcd, NameLibc}

\* the addresses given to Module::new, get_module and add
A_0FFF   == <<0, 0, 0, \h0FFF>>
A_1000   == <<0, 0, 0, \h1000>>
A_1204   == <<0, 0, 0, \h1204>>
A_2000   == <<0, 0, 0, \h2000>>
A_3000   == <<0, 0, 0, \h3000>>
A_3800   == <<0, 0, 0, \h3800>>
A_4000   == <<0, 0, 0, \h4000>>
A_DEAD   == <<0, 0, 0, \hDEAD>>
A_555000 == <<0, 0, \h55, \h5000>>
A_556000 == <<0, 0, \h55, \h6000>>
\* 2^64 - 2^32, 2^64 - 2 and 2^64 - 1
A_HIGH       == <<U16_MAX, U16_MAX, 0, 0>>
A_HIGH_LAST  == <<U16_MAX, U16_MAX, U16_MAX, U16_MAX - 1>>
A_MAX        == <<U16_MAX, U16_MAX, U16_MAX, U16_MAX>>
\* 0x1000 + 2^32 - 1 and 0x1000 + 2^32
A_1000_PLUS_U32MAX == <<0, 1, 0, \h0FFF>>
A_1000_PLUS_2P32   == <<0, 1, 0, \h1000>>

\* the module lists a Trace is built from: each module is what Module::new
\* returned
Mod(name, base, end) == Module_new(name, base, end).val[1]

Run(n, m) == [count |-> n, module |-> m]

\* the modules before the last one in the longest list: 2^16
PadModules == 65536

ModuleLists ==
    { \* the modules of examples/record.rs
      << Run(1, Mod(NameAbcd, A_1000, A_2000)),
         Run(1, Mod(NameLibc, A_555000, A_556000)) >>,
      \* two modules that overlap on 0x2000..0x3000
      << Run(1, Mod(NameAbcd, A_1000, A_3000)),
         Run(1, Mod(NameLibc, A_2000, A_4000)) >>,
      \* the largest module there is, ending at the last address
      << Run(1, Mod(NameLibc, A_HIGH, A_MAX)) >>,
      \* no module
      << >>,
      \* 2^16 + 1 modules: "abcd" 2^16 times, then "libc.so"
      << Run(PadModules, Mod(NameAbcd, A_1000, A_2000)),
         Run(1, Mod(NameLibc, A_555000, A_556000)) >> }

Addresses ==
    {A_0FFF, A_1204, A_2000, A_3800, A_DEAD, A_555000, A_HIGH_LAST}

\* sizes: 3, 65535 and 65536 + 3
Sizes == { <<0, 0, 0, 3>>, <<0, 0, 0, U16_MAX>>, <<0, 0, 1, 3>> }

\* the (base, end) pairs given to Module::new
Bounds64 ==
    {ZERO64, A_1000, A_2000, A_1000_PLUS_U32MAX, A_1000_PLUS_2P32, A_HIGH, A_MAX}

\* the most entries a Trace of the model holds
MaxEntries == 2

\* the most bytes the sink accepts of the request it fails
MaxPartial == 1

\* the most modules of a Trace that the model serializes
MaxRows == 3

-----------------------------------------------------------------------------
(* The state after Trace::new(&modules) *)

Init ==
    /\ modules \in ModuleLists
    /\ entries = <<>>
    /\ flavor = StrDrcov
    /\ version = "V2"                           \* Version::default()
    /\ endian \in {"little", "big"}
    /\ op = "new"
    /\ arg = <<>>
    /\ res = Ok
    /\ ret = <<>>
    /\ out = <<>>
    /\ attempts = 0
    /\ failed = 0
    /\ calls = <<>>

\* A faulty variant: a push that drops an entry equal to the last one
Vec_push_Dedup(es, e) ==
    IF es # <<>> /\ es[Len(es)] = e THEN es ELSE Append(es, e)

\* self.entries.push(entry)
Vec_push(es, e) == Append(es, e)

\* an operation that is given no sink
NoSink == out' = <<>> /\ attempts' = 0 /\ failed' = 0

\* trace.get_module(address)
GetModule ==
    \E address \in Addresses :
        \E r \in {Trace_get_module(modules, address)} :
            /\ op' = "get_module"
            /\ arg' = <<address>>
            /\ res' = Ok
            /\ ret' = <<r>>
            /\ NoSink
            /\ UNCHANGED <<trace, endian, calls>>

\* trace.add(address, size): a panic unwinds before entries.push
Add ==
    /\ Len(entries) < MaxEntries
    /\ \E address \in Addresses :
        \E size \in Sizes :
            \E r \in {Trace_add_entry(modules, address, size)} :
                /\ op' = "add"
                /\ arg' = <<address, size>>
                /\ res' = r.res
                /\ ret' = <<>>
                /\ entries' = IF r.res.tag = "Ok"
                              THEN Vec_push(entries, r.val[1])
                              ELSE entries
                /\ calls' = IF r.res.tag = "Ok"
                            THEN Append(calls, [address |-> address, size |-> size])
                            ELSE calls
                /\ NoSink
                /\ UNCHANGED <<modules, flavor, version, endian>>

\* The requests Trace::write makes when none fails: four lines, a row for
\* each module, a line, a record for each entry
Requests == 5 + Modules_len(modules) + Len(entries)

\* A faulty variant: a serialization that takes the entries out of the Trace
Serialize_Draining(name, w0) ==
    \E w \in {Trace_write(modules, entries, flavor, version, endian, w0)} :
        /\ op' = name
        /\ arg' = <<w0.failAt, w0.partial>>
        /\ res' = IF w.err THEN IoErr("write") ELSE Ok
        /\ ret' = <<>>
        /\ out' = w.bytes
        /\ attempts' = w.n
        /\ failed' = w.failedAt
        /\ entries' = <<>>
        /\ UNCHANGED <<modules, flavor, version, endian, calls>>

\* The serialization started on a sink, until Trace::write returns
Serialize(name, w0) ==
    \E w \in {Trace_write(modules, entries, flavor, version, endian, w0)} :
        /\ op' = name
        /\ arg' = <<w0.failAt, w0.partial>>
        /\ res' = IF w.err THEN IoErr("write") ELSE Ok
        /\ ret' = <<>>
        /\ out' = w.bytes
        /\ attempts' = w.n
        /\ failed' = w.failedAt
        /\ UNCHANGED <<trace, endian, calls>>

\* trace.write(&mut writer), on a writer that has accepted nothing yet
Write ==
    /\ Modules_len(modules) <= MaxRows
    /\ \E failAt \in 0..Requests, partial \in {0, MaxPartial} :
        Serialize("write", NewSink(failAt, partial))

\* trace.save(path): File::create(path)? and then self.write(&mut file)
Save ==
    /\ Modules_len(modules) <= MaxRows
    /\ \E created \in BOOLEAN, failAt \in {0, 1, Requests} :
        IF created
        THEN Serialize("save", NewSink(failAt, 0))
        ELSE /\ op' = "save"
             /\ arg' = <<failAt, 0>>
             /\ res' = IoErr("create")
             /\ ret' = <<>>
             /\ NoSink
             /\ UNCHANGED <<trace, endian, calls>>

Next == GetModule \/ Add \/ Write \/ Save

Spec == Init /\ [][Next]_vars

-----------------------------------------------------------------------------
(* Module::new on its own: the caller draws a name and two addresses, then *)
(* calls Module::new(name, base, end)                                      *)

InitModule ==
    /\ modules = <<>>
    /\ entries = <<>>
    /\ flavor = StrDrcov
    /\ version = "V2"
    /\ endian \in {"little"}
    /\ op = "input"
    /\ arg \in Names \X Bounds64 \X Bounds64
    /\ res = Ok
    /\ ret = <<>>
    /\ out = <<>>
    /\ attempts = 0
    /\ failed = 0
    /\ calls = <<>>

ModuleNew ==
    /\ op = "input"
    /\ LET r == Module_new(arg[1], arg[2], arg[3])
       IN  /\ op' = "Module::new"
           /\ res' = r.res
           /\ ret' = r.val
           /\ UNCHANGED <<trace, endian, sinkv, calls, arg>>

NextModule == ModuleNew

SpecModule == InitModule /\ [][NextModule]_vars

-----------------------------------------------------------------------------
(* What the properties are stated with.  Order and sums of u64 are defined *)
(* here a second time, apart from the operators the model computes with.   *)

\* a < b, limb by limb from the most significant
Before(a, b) ==
    \E i \in 1..Len(a) :
        /\ a[i] < b[i]
        /\ \A j \in 1..(i - 1) : a[j] = b[j]

NotAfter(a, b) == ~Before(b, a)

\* the carry out of limb i of a + b
RECURSIVE Carry(_, _, _)
Carry(a, b, i) ==
    IF i > 4 THEN 0
    ELSE IF a[i] + b[i] + Carry(a, b, i + 1) >= Radix THEN 1 ELSE 0

\* a + b modulo 2^64, and whether a + b < 2^64
Plus64(a, b) == [i \in 1..4 |-> (a[i] + b[i] + Carry(a, b, i + 1)) % Radix]
PlusFits(a, b) == Carry(a, b, 1) = 0

\* a u32 and a u16 as u64
Wide32(x) == <<0, 0, x[1], x[2]>>
Wide16(x) == <<0, 0, 0, x>>

\* whether the range [base, end) of a module holds the address
Holds(m, a) == NotAfter(m.base, a) /\ Before(a, m.end)

\* the ids (from 0) of the modules of run r of the list: lo..hi
RECURSIVE Passed(_, _)
Passed(ms, r) == IF r = 1 THEN 0 ELSE Passed(ms, r - 1) + ms[r - 1].count
IdsOfRun(ms, r) == [lo |-> Passed(ms, r), hi |-> Passed(ms, r) + ms[r].count - 1]

\* the runs whose modules hold the address
Holding(ms, a) == {r \in 1..Len(ms) : Holds(ms[r].module, a)}

\* the lowest id of a module that holds the address (some module does)
LowestId(ms, a) ==
    LET r == CHOOSE x \in Holding(ms, a) : \A y \in Holding(ms, a) : x <= y
    IN  IdsOfRun(ms, r).lo

\* the module of the list with the id k
ModuleOfId(ms, k) ==
    LET r == CHOOSE x \in 1..Len(ms) : IdsOfRun(ms, x).lo <= k /\ k <= IdsOfRun(ms, x).hi
    IN  ms[r].module

\* the number of modules of the list
Count(ms) == IF ms = <<>> THEN 0 ELSE IdsOfRun(ms, Len(ms)).hi + 1

\* a usize that fits in 16 bits
Fits16(s) == NotAfter(s, Wide16(U16_MAX))

IsAdd == op = "add"
IsSerialization(o) == o \in {"write", "save"}

-----------------------------------------------------------------------------
(* Trace::add *)

\* C1: add(a, s) with a inside a module and s <= 65535 succeeds and appends
\* exactly the entry {start = a - module[k].base, size = s, mod_id = k}, k the
\* lowest id of a module that contains a.
C1_AddAppendsEntryOfLowestModule ==
    [][ (op' = "add" /\ Holding(modules, arg'[1]) # {} /\ Fits16(arg'[2]))
        => LET a == arg'[1]
               s == arg'[2]
               k == LowestId(modules, a)
           IN  /\ res'.tag = "Ok"
               /\ Len(entries') = Len(entries) + 1
               /\ SubSeq(entries', 1, Len(entries)) = entries
               /\ LET e == entries'[Len(entries')]
                  IN  /\ Plus64(ModuleOfId(modules, k).base, Wide32(e.start)) = a
                      /\ Wide16(e.size) = s
                      /\ e.mod_id = k ]_vars

C3_OversizeFails ==
    /\ [][ (op' = "add" /\ Holding(modules, arg'[1]) # {} /\ ~Fits16(arg'[2]))
           => /\ res' = Panic("Entry size is too large (u16::MAX < entry)")
              /\ entries' = entries ]_vars
    /\ [](/\ Len(entries) = Len(calls)
          /\ \A i \in 1..Len(entries) : Wide16(entries[i].size) = calls[i].size)

\* a mapped address given with the size 65536 + 3 to a Trace that holds an entry
C3_Witness ==
    /\ IsAdd
    /\ Holding(modules, arg[1]) # {}
    /\ arg[2] = <<0, 0, 1, 3>>
    /\ res.tag = "Panic"
    /\ Len(entries) > 0

-----------------------------------------------------------------------------
(* Trace::get_module *)

\* C4: get_module(a) returns the module of the lowest id among the modules
\* whose range [base, end) holds a, and None exactly when no module holds a,
\* whatever the entries recorded so far.
C4_GetModuleReturnsLowest ==
    op = "get_module"
        => IF Holding(modules, arg[1]) = {}
           THEN ret = << <<>> >>
           ELSE ret = << <<ModuleOfId(modules, LowestId(modules, arg[1]))>> >>

\* an address that two modules hold, asked for after an entry was recorded
C4_Witness ==
    /\ op = "get_module"
    /\ Cardinality(Holding(modules, arg[1])) = 2
    /\ ModuleOfId(modules, 0) # ModuleOfId(modules, 1)
    /\ ret = << <<ModuleOfId(modules, 0)>> >>
    /\ Len(entries) > 0

-----------------------------------------------------------------------------
(* Module::new *)

\* C5: Module::new(name, base, end) returns a module exactly when base < end
\* and end - base <= 2^32 - 1 (end <= base + 2^32 - 1); otherwise it panics
\* and the caller has no Module.
C5_ModuleNewChecksBounds ==
    op = "Module::new"
        => LET base  == arg[2]
               end   == arg[3]
               valid == /\ Before(base, end)
                        /\ \/ ~PlusFits(base, U32_MAX_AS_U64)
                           \/ NotAfter(end, Plus64(base, U32_MAX_AS_U64))
           IN  IF valid
               THEN /\ res.tag = "Ok"
                    /\ ret = <<[name |-> arg[1], base |-> base, end |-> end]>>
               ELSE /\ res.tag = "Panic"
                    /\ ret = <<>>

\* a module of 2^32 bytes was asked for, and refused
C5_Witness ==
    /\ op = "Module::new"
    /\ arg[2] = A_1000
    /\ arg[3] = A_1000_PLUS_2P32
    /\ res.tag = "Panic"
    /\ ret = <<>>

-----------------------------------------------------------------------------
(* The entries *)

\* C9: the entries are append-only.  A call of add that returns appends one
\* entry and changes nothing else of the Trace, every other step leaves the
\* Trace as it is, and the entries are the calls that returned, in their order:
\* entry i has the size of call i and the offset of its address in the module
\* that the address resolves to.
C9_EntriesAreTheCallsInOrder ==
    /\ [][ /\ <<modules, flavor, version>>' = <<modules, flavor, version>>
           /\ IF op' = "add" /\ res'.tag = "Ok"
              THEN /\ Len(entries') = Len(entries) + 1
                   /\ SubSeq(entries', 1, Len(entries)) = entries
              ELSE entries' = entries ]_vars
    /\ [](/\ Len(entries) = Len(calls)
          /\ \A i \in 1..Len(entries) :
                /\ Holding(modules, calls[i].address) # {}
                /\ LET m == ModuleOfId(modules, LowestId(modules, calls[i].address))
                   IN  Plus64(m.base, Wide32(entries[i].start)) = calls[i].address
                /\ Wide16(entries[i].size) = calls[i].size)

\* two calls of add with the same address and size, one after the other, have
\* left two equal entries
C9_Witness ==
    /\ IsAdd
    /\ res.tag = "Ok"
    /\ Len(entries) = 2
    /\ calls[1] = calls[2]
    /\ entries[1] = entries[2]

\* C10: every entry names a module of the list, its start is below the size of
\* that module, and the base of that module plus its start is the address that
\* was recorded.
C10_EntriesNameTheirModule ==
    /\ Len(entries) = Len(calls)
    /\ \A i \in 1..Len(entries) :
          LET e == entries[i]
          IN  /\ e.mod_id < Count(modules)
              /\ LET m == ModuleOfId(modules, e.mod_id)
                 IN  /\ Before(Plus64(m.base, Wide32(e.start)), m.end)
                     /\ Plus64(m.base, Wide32(e.start)) = calls[i].address

-----------------------------------------------------------------------------
(* Reading the output back *)

HasPrefix(bs, p) == Len(bs) >= Len(p) /\ SubSeq(bs, 1, Len(p)) = p
HasSuffix(bs, p) == Len(bs) >= Len(p) /\ SubSeq(bs, Len(bs) - Len(p) + 1, Len(bs)) = p

\* the position of the first newline of bs at or after from, 0 when none is
RECURSIVE NewlineFrom(_, _)
NewlineFrom(bs, from) ==
    IF from > Len(bs) THEN 0
    ELSE IF bs[from] = 10 THEN from
    ELSE NewlineFrom(bs, from + 1)

\* the first k lines of bs from the position from, without their newlines, and
\* the position after them
RECURSIVE Lines(_, _, _)
Lines(bs, from, k) ==
    IF k = 0 THEN [ok |-> TRUE, lines |-> <<>>, rest |-> from]
    ELSE LET e == NewlineFrom(bs, from)
         IN  IF e = 0 THEN [ok |-> FALSE, lines |-> <<>>, rest |-> from]
             ELSE LET r == Lines(bs, e + 1, k - 1)
                  IN  [ok    |-> r.ok,
                       lines |-> <<SubSeq(bs, from, e - 1)>> \o r.lines,
                       rest  |-> r.rest]

\* the position of the first ", " of bs at or after from, 0 when none is
RECURSIVE SepFrom(_, _)
SepFrom(bs, from) ==
    IF from + 1 > Len(bs) THEN 0
    ELSE IF bs[from] = 44 /\ bs[from + 1] = 32 THEN from
    ELSE SepFrom(bs, from + 1)

\* the fields of a line that ", " separates
RECURSIVE Fields(_, _)
Fields(bs, from) ==
    LET i == SepFrom(bs, from)
    IN  IF i = 0 THEN <<SubSeq(bs, from, Len(bs))>>
        ELSE <<SubSeq(bs, from, i - 1)>> \o Fields(bs, i + 2)

\* ds is the decimal numeral of n
RECURSIVE DecimalValue(_)
DecimalValue(ds) ==
    IF ds = <<>> THEN 0
    ELSE 10 * DecimalValue(SubSeq(ds, 1, Len(ds) - 1)) + (ds[Len(ds)] - 48)

ReadsAsDecimal(ds, n) ==
    /\ ds # <<>>
    /\ \A i \in 1..Len(ds) : ds[i] \in 48..57
    /\ Len(ds) > 1 => ds[1] # 48
    /\ DecimalValue(ds) = n

\* hs is "0x" and the lower-case hexadecimal numeral of the u64 x
HexValue(c) == IF c \in 48..57 THEN c - 48 ELSE c - 87

\* digit p (1..16) of the numeral ds written with 16 digits
Nibble(ds, p) ==
    IF p <= 16 - Len(ds) THEN 0 ELSE HexValue(ds[p - (16 - Len(ds))])

ReadsAsHex(hs, x) ==
    /\ HasPrefix(hs, <<48, 120>>)
    /\ LET ds == SubSeq(hs, 3, Len(hs))
       IN  /\ Len(ds) \in 1..16
           /\ \A i \in 1..Len(ds) : ds[i] \in (48..57) \cup (97..102)
           /\ Len(ds) > 1 => ds[1] # 48
           /\ \A j \in 1..4 :
                 x[j] = 4096 * Nibble(ds, 4 * j - 3) + 256 * Nibble(ds, 4 * j - 2)
                            + 16 * Nibble(ds, 4 * j - 1) + Nibble(ds, 4 * j)

\* the 16-bit number two bytes hold in the byte order of the target
Read16(b1, b2, en) == IF en = "little" THEN b1 + 256 * b2 ELSE 256 * b1 + b2

\* the record that the 8 bytes of bs from the position at hold
RecordAt(bs, at, en) ==
    LET first  == Read16(bs[at], bs[at + 1], en)
        second == Read16(bs[at + 2], bs[at + 3], en)
    IN  [start  |-> IF en = "little" THEN <<second, first>> ELSE <<first, second>>,
         size   |-> Read16(bs[at + 4], bs[at + 5], en),
         mod_id |-> Read16(bs[at + 6], bs[at + 7], en)]

-----------------------------------------------------------------------------
(* Trace::write and Trace::save *)

\* C6: a serialization that succeeds has written the two header lines, the
\* line of the module table with the count N, the line of the columns, N rows
\* "id, 0, 0xbase, 0xend, 0, 0, name" in the order of the ids, the line
\* "BB Table: M bbs", and then M records of 8 bytes, the entries in the order
\* they were recorded, and nothing more.
C6_SerializedLayout ==
    (IsSerialization(op) /\ res.tag = "Ok")
        => LET N == Count(modules)
               M == Len(entries)
               p == Lines(out, 1, 5 + N)
               l == p.lines
           IN  /\ p.ok
               /\ version = "V2"
               /\ l[1] = StrVersionPrefix \o <<50>>
               /\ l[2] = StrFlavorPrefix \o flavor
               /\ HasPrefix(l[3], StrTablePrefix)
               /\ ReadsAsDecimal(SubSeq(l[3], Len(StrTablePrefix) + 1, Len(l[3])), N)
               /\ l[4] = StrColumns
               /\ \A k \in 0..(N - 1) :
                     LET f == Fields(l[5 + k], 1)
                         m == ModuleOfId(modules, k)
                     IN  /\ Len(f) = 7
                         /\ ReadsAsDecimal(f[1], k)
                         /\ f[2] = <<48>>
                         /\ ReadsAsHex(f[3], m.base)
                         /\ ReadsAsHex(f[4], m.end)
                         /\ f[5] = <<48>>
                         /\ f[6] = <<48>>
                         /\ f[7] = m.name
               /\ HasPrefix(l[5 + N], StrBBPrefix)
               /\ HasSuffix(l[5 + N], StrBBSuffix)
               /\ ReadsAsDecimal(SubSeq(l[5 + N], Len(StrBBPrefix) + 1,
                                        Len(l[5 + N]) - Len(StrBBSuffix)), M)
               /\ Len(out) = p.rest - 1 + 8 * M
               /\ \A i \in 1..M : RecordAt(out, p.rest + 8 * (i - 1), endian) = entries[i]

\* a Trace of two modules and two different entries was written
C6_Witness ==
    /\ op = "write"
    /\ res.tag = "Ok"
    /\ Count(modules) = 2
    /\ Len(entries) = 2
    /\ entries[1] # entries[2]
    /\ Len(out) > 16

\* what Trace::write writes to a sink that fails no request
FullOutput ==
    Trace_write(modules, entries, flavor, version, endian, NewSink(0, 0)).bytes

\* C7: when the sink fails a request of a serialization, that request is the
\* last one made on the sink, the error is returned, and the bytes the sink
\* accepted are a proper prefix of what a serialization without failure writes.
C7_StopsAtFirstFailedWrite ==
    (IsSerialization(op) /\ failed # 0)
        => /\ res.tag = "Err"
           /\ attempts = failed
           /\ Len(out) < Len(FullOutput)
           /\ out = SubSeq(FullOutput, 1, Len(out))

\* the sink failed a request that is not the last, after accepting a byte of it
C7_Witness ==
    /\ op = "write"
    /\ failed # 0
    /\ failed < Requests
    /\ arg[2] > 0
    /\ Len(entries) > 0
    /\ res.tag = "Err"

\* C8: a serialization, failed or not, leaves modules, entries, flavor and
\* version as they were; one that succeeds ends with the records of the entries
\* recorded so far; one that succeeds right after another that succeeded has
\* written the same bytes; and add after a serialization appends as before.
C8_SerializationLeavesTrace ==
    /\ [][ IsSerialization(op')
           => /\ trace' = trace
              /\ res'.tag = "Ok"
                    => /\ Len(entries') = Len(calls')
                       /\ Len(out') >= 8 * Len(entries')
                       /\ \A i \in 1..Len(entries') :
                             RecordAt(out', Len(out') - 8 * (Len(entries') + 1 - i) + 1,
                                      endian) = entries'[i]
              /\ (IsSerialization(op) /\ res.tag = "Ok" /\ res'.tag = "Ok")
                    => out' = out ]_vars
    /\ [][ (IsSerialization(op) /\ op' = "add" /\ res'.tag = "Ok")
           => /\ Len(entries') = Len(entries) + 1
              /\ SubSeq(entries', 1, Len(entries)) = entries ]_vars

\* a Trace was saved with the two entries recorded so far
C8_Witness ==
    /\ op = "save"
    /\ res.tag = "Ok"
    /\ Len(entries) = 2
    /\ Len(out) > 16

====
